---- MODULE Spec2Model ----
(***************************************************************************)
(* Model of assistant_OH.py: a voice assistant that turns recognized       *)
(* speech starting with a hotword into openHAB REST commands.              *)
(*                                                                         *)
(* Text is modelled as a sequence of one-character strings, so that        *)
(* str.lower, str.startswith, the `in` substring test, str.split, int and  *)
(* str are computed on characters as Python computes them.                 *)
(***************************************************************************)
EXTENDS Integers, Sequences, FiniteSets, TLC

(* ------------------------------ text ---------------------------------- *)

UpperChars == <<"A","B","C","D","E","F","G","H","I","J","K","L","M","N","O","P","Q","R","S","T","U","V","W","X","Y","Z">>

LowerChars == <<"a","b","c","d","e","f","g","h","i","j","k","l","m","n","o","p","q","r","s","t","u","v","w","x","y","z">>

\* The lowercase letter of each uppercase letter
LowerOf ==
    [c \in {UpperChars[i] : i \in 1..Len(UpperChars)} |->
        LowerChars[CHOOSE i \in 1..Len(UpperChars) : UpperChars[i] = c]]

\* str.lower on one character
LowerChar(c) == IF c \in DOMAIN LowerOf THEN LowerOf[c] ELSE c

\* str.lower
lower(s) == [i \in 1..Len(s) |-> LowerChar(s[i])]

\* s.startswith(prefix)
startswith(s, prefix) ==
    /\ Len(prefix) <= Len(s)
    /\ SubSeq(s, 1, Len(prefix)) = prefix

\* `pat in s` for strings: pat occurs as a contiguous substring of s
contains(pat, s) ==
    LET m == Len(pat)
        c == pat[1]
    IN  \/ m = 0
        \/ \E i \in 1..(Len(s) - m + 1) :
              s[i] = c /\ \A k \in 2..m : s[i + k - 1] = pat[k]

\* The words the program's string literals are made of.
Word ==
    [ home |-> <<"h","o","m","e">>,
    turn |-> <<"t","u","r","n">>,
    power |-> <<"p","o","w","e","r">>,
    set |-> <<"s","e","t">>,
    change |-> <<"c","h","a","n","g","e">>,
    increase |-> <<"i","n","c","r","e","a","s","e">>,
    raise |-> <<"r","a","i","s","e">>,
    decrease |-> <<"d","e","c","r","e","a","s","e">>,
    reduce |-> <<"r","e","d","u","c","e">>,
    reboot |-> <<"r","e","b","o","o","t">>,
    restart |-> <<"r","e","s","t","a","r","t">>,
    all |-> <<"a","l","l">>,
    lights |-> <<"l","i","g","h","t","s">>,
    light |-> <<"l","i","g","h","t">>,
    on |-> <<"o","n">>,
    off |-> <<"o","f","f">>,
    red |-> <<"r","e","d">>,
    yellow |-> <<"y","e","l","l","o","w">>,
    blue |-> <<"b","l","u","e">>,
    pink |-> <<"p","i","n","k">>,
    green |-> <<"g","r","e","e","n">>,
    cool |-> <<"c","o","o","l">>,
    warm |-> <<"w","a","r","m">>,
    natural |-> <<"n","a","t","u","r","a","l">>,
    system |-> <<"s","y","s","t","e","m">>,
    brightness |-> <<"b","r","i","g","h","t","n","e","s","s">>,
    office |-> <<"o","f","f","i","c","e">> ]

\* Words that occur only in recognized speech, never in the program text.
Spoken ==
    [ Home |-> <<"H","o","m","e">>,
    homework |-> <<"h","o","m","e","w","o","r","k">>,
    hello |-> <<"h","e","l","l","o">>,
    kitchen |-> <<"k","i","t","c","h","e","n">>,
    the |-> <<"t","h","e">>,
    Office |-> <<"O","f","f","i","c","e">> ]

\* A literal such as ' turn ': the word with one space on each side.
Padded(w) == <<" ">> \o w \o <<" ">>


\* The string literals 'ON' and 'OFF', and the state openHAB reports for an
\* item that has none yet.
ON == <<"O","N">>

OFF == <<"O","F","F">>

NULL == <<"N","U","L","L">>

Digits == <<"0","1","2","3","4","5","6","7","8","9">>

IsDigit(c) == \E d \in 1..10 : Digits[d] = c

DigitValue(c) == (CHOOSE d \in 1..10 : Digits[d] = c) - 1

RECURSIVE NatStr(_)
NatStr(n) == IF n < 10 THEN <<Digits[n + 1]>>
             ELSE NatStr(n \div 10) \o <<Digits[(n % 10) + 1]>>

\* str(n) for an integer n
str(n) == IF n < 0 THEN <<"-">> \o NatStr(0 - n) ELSE NatStr(n)

RECURSIVE NatValue(_)
NatValue(s) == IF Len(s) = 0 THEN 0
               ELSE 10 * NatValue(SubSeq(s, 1, Len(s) - 1)) + DigitValue(s[Len(s)])

\* int(s) succeeds on an optional sign followed by digits; otherwise ValueError
IsIntLiteral(s) ==
    LET body == IF Len(s) > 0 /\ s[1] \in {"-", "+"} THEN Tail(s) ELSE s
    IN  Len(body) > 0 /\ \A i \in 1..Len(body) : IsDigit(body[i])

int(s) == IF s[1] = "-" THEN 0 - NatValue(Tail(s))
          ELSE IF s[1] = "+" THEN NatValue(Tail(s))
          ELSE NatValue(s)

\* s.split(sep) for a one-character separator
RECURSIVE split(_, _)
split(s, sep) ==
    IF \E i \in 1..Len(s) : s[i] = sep
    THEN LET i == CHOOSE k \in 1..Len(s) :
                      s[k] = sep /\ \A j \in 1..(k - 1) : s[j] # sep
         IN  <<SubSeq(s, 1, i - 1)>> \o split(SubSeq(s, i + 1, Len(s)), sep)
    ELSE <<s>>

(* --------------------------- configuration ---------------------------- *)

all_lights_group == "Lights_ALL"

light_colors == <<"hue_0210_00178828e0d0_1_color">>

light_color_temps == <<"hue_0210_00178828e0d0_1_color_temperature">>

lights_ids == <<Word.office>>

custom_hotword == Word.home

(* ------------------------------ helpers ------------------------------- *)

\* Python's None as the value of idx
None == -1

\* any_idx as it would be if it fell back to the first entry
any_idx_Default0(iterable) ==
    IF \E i \in 1..Len(iterable) : iterable[i]
    THEN (CHOOSE i \in 1..Len(iterable) :
              iterable[i] /\ \A j \in 1..(i - 1) : ~iterable[j]) - 1
    ELSE 0

\* any_idx: the 0-based position of the first true element, None if there is none
any_idx(iterable) ==
    IF \E i \in 1..Len(iterable) : iterable[i]
    THEN (CHOOSE i \in 1..Len(iterable) :
              iterable[i] /\ \A j \in 1..(i - 1) : ~iterable[j]) - 1
    ELSE None

\* the generator (token in text for token in lights_ids)
NamesIn(text) == [i \in 1..Len(lights_ids) |-> contains(lights_ids[i], text)]


(* --------------------- calls on the collaborators --------------------- *)

\* One call on a collaborator: the REST backend, the speech library, the
\* text-to-speech sink or the shell.
Call(op, arg, data) == [op |-> op, arg |-> arg, data |-> data]

stop_conversation == Call("stop_conversation", "", <<>>)

requests_get(item) == Call("GET", item, <<>>)

requests_post(item, state) == Call("POST", item, state)

say(message) == Call("say", message, <<>>)

subprocess_call(command) == Call("subprocess", command, <<>>)

\* Where a handler stands after some calls: back in the event loop, blocked
\* in requests.get, blocked in requests.post, or left by an exception.
Step(calls, pc) == [calls |-> calls, pc |-> pc]

Raised == Step(<<>>, "exited")

\* openhab_send up to and including requests.post
openhab_send(item, state) == Step(<<requests_post(item, state)>>, "post")

\* openhab_send_report as it would be without the branch for 404
openhab_send_report_No404(status_code) ==
    IF status_code = 200 THEN say("OK")
    ELSE IF status_code = 400 THEN say("There has been an error: bad command")
    ELSE say("Command failed")

\* openhab_send after requests.post has returned a response with status_code
openhab_send_report(status_code) ==
    IF status_code = 200 THEN say("OK")
    ELSE IF status_code = 400 THEN say("There has been an error: bad command")
    ELSE IF status_code = 404 THEN say("There has been an error: unknown item")
    ELSE say("Command failed")

\* openhab_get_state up to and including requests.get
openhab_get_state(item) == Step(<<requests_get(item)>>, "get")

power_off_pi ==
    Step(<<say("Powering off the system. Good bye!"),
           subprocess_call("sudo shutdown now")>>, "loop")

reboot_pi ==
    Step(<<say("Rebooting the system. Hold on!"),
           subprocess_call("sudo reboot")>>, "loop")

not_recognized == Step(<<say("Sorry, I cannot do that yet")>>, "loop")

device_not_found == Step(<<say("Sorry, I don't know that device")>>, "loop")

Nothing == Step(<<>>, "loop")

(* ------------------------ the command grammar ------------------------- *)

\* ' w ' in text
tok(w, text) == contains(Padded(w), text)

\* any(token in text for token in (' turn ', ' power ', ' set ', ' change '))
DirectGroup(text) ==
    \E w \in {Word.turn, Word.power, Word.set, Word.change} : tok(w, text)

\* any(token in text for token in (' increase ', ' raise '))
IncreaseGroup(text) == \E w \in {Word.increase, Word.raise} : tok(w, text)

\* any(token in text for token in (' decrease ', ' reduce '))
DecreaseGroup(text) == \E w \in {Word.decrease, Word.reduce} : tok(w, text)

\* any(token in text for token in (' reboot ', ' restart '))
RebootGroup(text) == \E w \in {Word.reboot, Word.restart} : tok(w, text)

\* ' all ' in text and ' lights ' in text
AllLights(text) == tok(Word.all, text) /\ tok(Word.lights, text)

\* ' brightness ' in text and 'light' in text
BrightnessOfLight(text) ==
    tok(Word.brightness, text) /\ contains(Word.light, text)

\* IsCommand as it would be with `custom_hotword in text`
IsCommand_Anywhere(text) == contains(custom_hotword, text)

\* The CHECK HOTWORD test on the lowercased text
IsCommand(text) == startswith(text, custom_hotword)

\* The direct-state branch for one light, up to the first blocking call
DirectLight(text) ==
    LET idx == any_idx(NamesIn(text))
    IN  IF idx # None THEN openhab_get_state(light_colors[idx + 1])
        ELSE device_not_found

\* The increase and decrease branches, up to the first blocking call
AdjustLight(text) ==
    IF BrightnessOfLight(text)
    THEN LET idx == any_idx(NamesIn(text))
         IN  IF idx # None THEN openhab_get_state(light_colors[idx + 1])
             ELSE device_not_found
    ELSE not_recognized

\* CheckAction as it would be with the increase group tested first
CheckAction_IncreaseFirst(text) ==
    IF IncreaseGroup(text) THEN AdjustLight(text)
    ELSE IF DirectGroup(text) THEN
        IF AllLights(text) THEN
            IF tok(Word.on, text) THEN openhab_send(all_lights_group, ON)
            ELSE IF tok(Word.off, text) THEN openhab_send(all_lights_group, OFF)
            ELSE not_recognized
        ELSE IF tok(Word.light, text) THEN DirectLight(text)
        ELSE IF tok(Word.system, text) THEN
            IF tok(Word.off, text) THEN power_off_pi ELSE Nothing
        ELSE not_recognized
    ELSE IF DecreaseGroup(text) THEN AdjustLight(text)
    ELSE IF RebootGroup(text) THEN
        IF tok(Word.system, text) THEN reboot_pi ELSE Nothing
    ELSE not_recognized

\* CheckAction as it would be if the reboot group did not ask for ' system '
CheckAction_RebootAlways(text) ==
    IF DirectGroup(text) THEN
        IF AllLights(text) THEN
            IF tok(Word.on, text) THEN openhab_send(all_lights_group, ON)
            ELSE IF tok(Word.off, text) THEN openhab_send(all_lights_group, OFF)
            ELSE not_recognized
        ELSE IF tok(Word.light, text) THEN DirectLight(text)
        ELSE IF tok(Word.system, text) THEN
            IF tok(Word.off, text) THEN power_off_pi ELSE Nothing
        ELSE not_recognized
    ELSE IF IncreaseGroup(text) THEN AdjustLight(text)
    ELSE IF DecreaseGroup(text) THEN AdjustLight(text)
    ELSE IF RebootGroup(text) THEN reboot_pi
    ELSE not_recognized

\* CHECK ACTION, from the first test to the first blocking call or, when no
\* call blocks, to the end of the handler. text is lowercased and ends with
\* the appended space.
CheckAction(text) ==
    IF DirectGroup(text) THEN
        IF AllLights(text) THEN
            IF tok(Word.on, text) THEN openhab_send(all_lights_group, ON)
            ELSE IF tok(Word.off, text) THEN openhab_send(all_lights_group, OFF)
            ELSE not_recognized
        ELSE IF tok(Word.light, text) THEN DirectLight(text)
        ELSE IF tok(Word.system, text) THEN
            IF tok(Word.off, text) THEN power_off_pi ELSE Nothing
        ELSE not_recognized
    ELSE IF IncreaseGroup(text) THEN AdjustLight(text)
    ELSE IF DecreaseGroup(text) THEN AdjustLight(text)
    ELSE IF RebootGroup(text) THEN
        IF tok(Word.system, text) THEN reboot_pi ELSE Nothing
    ELSE not_recognized

\* SetColor as it would be with current_state[1] for current_state[2]
SetColor_Saturation(item, prefix, current_state) ==
    IF Len(current_state) < 2 THEN Raised
    ELSE openhab_send(item, prefix \o current_state[2])

\* A color branch: new_state = prefix + current_state[2], then openhab_send.
\* current_state[2] raises IndexError when the body had fewer than three
\* fields.
SetColor(item, prefix, current_state) ==
    IF Len(current_state) < 3 THEN Raised
    ELSE openhab_send(item, prefix \o current_state[3])

\* DirectLightFetched as it would be with red tested before on
DirectLightFetched_RedFirst(text, current_state) ==
    LET idx == any_idx(NamesIn(text))
        direct_to_color == light_colors[idx + 1]
        direct_to_color_temp == light_color_temps[idx + 1]
    IN
    IF tok(Word.red, text) THEN
        SetColor(direct_to_color, <<"0",",","1","0","0",",">>, current_state)
    ELSE IF tok(Word.on, text) THEN openhab_send(direct_to_color, ON)
    ELSE IF tok(Word.off, text) THEN openhab_send(direct_to_color, OFF)
    ELSE IF tok(Word.yellow, text) THEN
        SetColor(direct_to_color, <<"1","0","0",",","1","0","0",",">>, current_state)
    ELSE IF tok(Word.blue, text) THEN
        SetColor(direct_to_color, <<"2","6","0",",","1","0","0",",">>, current_state)
    ELSE IF tok(Word.pink, text) THEN
        SetColor(direct_to_color, <<"3","4","0",",","1","0","0",",">>, current_state)
    ELSE IF tok(Word.green, text) THEN
        SetColor(direct_to_color, <<"1","4","0",",","1","0","0",",">>, current_state)
    ELSE IF tok(Word.cool, text) THEN openhab_send(direct_to_color_temp, <<"0">>)
    ELSE IF tok(Word.warm, text) THEN openhab_send(direct_to_color_temp, <<"1","0","0">>)
    ELSE IF tok(Word.natural, text) THEN openhab_send(direct_to_color_temp, <<"5","0">>)
    ELSE not_recognized

\* The direct-state branch for one light once requests.get has returned
DirectLightFetched(text, current_state) ==
    LET idx == any_idx(NamesIn(text))
        direct_to_color == light_colors[idx + 1]
        direct_to_color_temp == light_color_temps[idx + 1]
    IN
    IF tok(Word.on, text) THEN openhab_send(direct_to_color, ON)
    ELSE IF tok(Word.off, text) THEN openhab_send(direct_to_color, OFF)
    ELSE IF tok(Word.red, text) THEN
        SetColor(direct_to_color, <<"0",",","1","0","0",",">>, current_state)
    ELSE IF tok(Word.yellow, text) THEN
        SetColor(direct_to_color, <<"1","0","0",",","1","0","0",",">>, current_state)
    ELSE IF tok(Word.blue, text) THEN
        SetColor(direct_to_color, <<"2","6","0",",","1","0","0",",">>, current_state)
    ELSE IF tok(Word.pink, text) THEN
        SetColor(direct_to_color, <<"3","4","0",",","1","0","0",",">>, current_state)
    ELSE IF tok(Word.green, text) THEN
        SetColor(direct_to_color, <<"1","4","0",",","1","0","0",",">>, current_state)
    ELSE IF tok(Word.cool, text) THEN openhab_send(direct_to_color_temp, <<"0">>)
    ELSE IF tok(Word.warm, text) THEN openhab_send(direct_to_color_temp, <<"1","0","0">>)
    ELSE IF tok(Word.natural, text) THEN openhab_send(direct_to_color_temp, <<"5","0">>)
    ELSE not_recognized

\* IncreasedBrightness as it would be without the `> 100` test
IncreasedBrightness_NoClamp(brightness) == brightness + 25

\* new_brightness of the increase branch
IncreasedBrightness(brightness) ==
    IF brightness + 25 > 100 THEN 100 ELSE brightness + 25

\* new_brightness of the decrease branch
DecreasedBrightness(brightness) ==
    IF brightness - 25 < 0 THEN 0 ELSE brightness - 25

\* The increase or decrease branch once requests.get has returned
AdjustLightFetched(text, current_state) ==
    LET idx == any_idx(NamesIn(text))
        direct_to_color == light_colors[idx + 1]
    IN
    IF Len(current_state) < 3 \/ ~IsIntLiteral(current_state[3]) THEN Raised
    ELSE LET new_brightness ==
                 IF IncreaseGroup(text)
                 THEN IncreasedBrightness(int(current_state[3]))
                 ELSE DecreasedBrightness(int(current_state[3]))
             new_state == current_state[1] \o <<",">> \o current_state[2]
                          \o <<",">> \o str(new_brightness)
         IN  openhab_send(direct_to_color, new_state)

\* The handler from the return of requests.get to the next blocking call
Fetched(text, current_state) ==
    IF DirectGroup(text) THEN DirectLightFetched(text, current_state)
    ELSE AdjustLightFetched(text, current_state)


(* ------------------------------- inputs ------------------------------- *)

\* Events the speech library has emitted and the worker has not yet taken:
\* at most MaxQueue of them
MaxQueue == 2

RECURSIVE Join(_)
\* The words of an utterance separated by single spaces
Join(ws) == IF Len(ws) = 0 THEN <<>>
            ELSE IF Len(ws) = 1 THEN ws[1]
            ELSE ws[1] \o <<" ">> \o Join(Tail(ws))

FirstWords == {Word.home, Spoken.Home, Spoken.homework, Spoken.hello}

VerbWords ==
    {<<>>} \cup
    {<<w>> : w \in {Word.turn, Word.power, Word.set, Word.change, Word.increase,
                    Word.raise, Word.decrease, Word.reduce, Word.reboot,
                    Word.restart}} \cup
    {<<Word.set, Word.increase>>, <<Word.raise, Word.change>>,
     <<Word.increase, Word.decrease>>, <<Word.reduce, Word.reboot>>,
     <<Word.restart, Word.turn>>}

ValueWords ==
    {<<>>} \cup
    {<<w>> : w \in {Word.on, Word.off, Word.red, Word.yellow, Word.blue,
                    Word.pink, Word.green, Word.cool, Word.warm, Word.natural}}
    \cup {<<Word.on, Word.red>>, <<Word.off, Word.on>>, <<Word.blue, Word.red>>,
          <<Word.green, Word.cool>>, <<Word.natural, Word.warm>>}

ScopeWords ==
    {<<>>,
     <<Word.all, Word.lights>>,
     <<Spoken.the, Word.office, Word.light>>,
     <<Spoken.the, Spoken.kitchen, Word.light>>,
     <<Word.light>>,
     <<Word.office, Word.lights>>,
     <<Word.system>>,
     <<Word.office, Word.light, Word.brightness>>,
     <<Spoken.kitchen, Word.light, Word.brightness>>,
     <<Word.office, Word.lights, Word.brightness>>,
     <<Word.brightness>>,
     <<Word.all, Word.lights, Spoken.kitchen, Word.light>>,
     <<Word.system, Spoken.Office, Word.light>>}

\* The texts the speech library may report as recognized
Utterances ==
    {Join(<<Word.home>> \o v \o p \o s) :
        v \in VerbWords,
        p \in {<<>>, <<Word.on>>, <<Word.off>>, <<Word.red>>, <<Word.cool>>},
        s \in ScopeWords}
    \cup
    {Join(<<Word.home, Word.turn>> \o p \o s) :
        p \in ValueWords,
        s \in {<<>>, <<Word.all, Word.lights>>,
               <<Spoken.the, Word.office, Word.light>>,
               <<Spoken.the, Spoken.kitchen, Word.light>>, <<Word.system>>}}
    \cup
    {Join(<<f>> \o v \o p \o s) :
        f \in FirstWords,
        v \in {<<>>, <<Word.turn>>, <<Word.increase>>},
        p \in {<<>>, <<Word.on>>},
        s \in {<<>>, <<Word.all, Word.lights>>,
               <<Spoken.the, Word.office, Word.light>>,
               <<Word.office, Word.light, Word.brightness>>}}
    \cup
    {Join(<<Spoken.hello, Word.home>> \o v \o <<Word.on>> \o s) :
        v \in {<<Word.turn>>, <<Word.increase>>},
        s \in {<<Word.all, Word.lights>>,
               <<Spoken.the, Word.office, Word.light>>,
               <<Word.office, Word.light, Word.brightness>>}}

\* The wire form of a color state: hue,saturation,brightness
Wire(h, s, b) == str(h) \o <<",">> \o str(s) \o <<",">> \o str(b)

\* The bodies requests.get may return for a color item: every brightness
\* with one hue and saturation, the two corners, and the body of an item
\* that has no state yet
StateTexts ==
    {Wire(120, 50, b) : b \in 0..100}
    \cup {Wire(0, 100, 100), Wire(359, 0, 0)} \cup {NULL}

\* The texts and bodies used where whole conversations are interleaved with
\* the button: one text for each way the handler can run
TurnUtterances ==
    {Join(ws) : ws \in
        {<<Spoken.hello, Word.turn, Word.on, Spoken.the, Word.office, Word.light>>,
         <<Spoken.hello, Word.home, Word.turn, Word.on, Word.all, Word.lights>>,
         <<Spoken.homework, Word.turn, Word.on, Word.all, Word.lights>>,
         <<Spoken.Home, Word.turn, Word.off, Spoken.the, Word.office, Word.light>>,
         <<Word.home, Word.turn, Spoken.the, Word.office, Word.light, Word.red>>,
         <<Word.home, Word.increase, Word.office, Word.light, Word.brightness>>,
         <<Word.home, Word.turn, Word.off, Spoken.the, Spoken.kitchen, Word.light>>,
         <<Word.home, Word.turn, Word.off, Spoken.the, Word.system>>,
         <<Word.home>>}}

TurnStateTexts == {Wire(120, 50, 90), NULL}

\* The status codes requests.post may return
StatusCodes == {200, 201, 400, 404, 500}


(* ------------------------------- state -------------------------------- *)

VARIABLES
    can_start_conversation, \* MyAssistant._can_start_conversation
    status,                 \* what status_ui.status was last given
    on_press,               \* whether the button has _on_button_pressed registered
    pc,                     \* where the event thread stands
    event,                  \* the event the event thread took last
    current_state,          \* the handler's current_state, once fetched
    calls,                  \* the calls the handler of `event` has made so far
    queue,                  \* event types emitted and not yet taken
    assistant,              \* the phase of the speech library's conversation
    button_pc,              \* where the button callback stands
    last_press,             \* status, flag and pc at the latest button press
    started_in,             \* assistant phase at the latest start_conversation()
    alive,                  \* whether the process still runs
    status_code,            \* r.status_code in openhab_send, once requests.post returned
    earlier,                \* the latest POST of a handler before that of `event`
    resolve                 \* a device table, a text, and the target found for them

vars == <<can_start_conversation, status, on_press, pc, event, current_state,
          calls, queue, assistant, button_pc, last_press, started_in, alive,
          status_code, earlier, resolve>>

worker_vars == <<can_start_conversation, status, on_press, pc, event,
                 current_state, calls, status_code>>

button_vars == <<button_pc, last_press, started_in>>

Event(type, has_args, text, is_fatal) ==
    [type |-> type, has_args |-> has_args, text |-> text, is_fatal |-> is_fatal]

NoEvent == Event("none", FALSE, <<>>, FALSE)

\* No POST has been made yet.
NoCall == Call("none", "", <<>>)

\* The device names are not being looked up.
NoResolve == [at |-> "none"]

\* MyAssistant.__init__ followed by start(): the event thread runs, the
\* library has emitted nothing yet.
Init ==
    /\ can_start_conversation = FALSE
    /\ status = "unset"
    /\ on_press = FALSE
    /\ pc = "loop"
    /\ event = NoEvent
    /\ current_state = <<>>
    /\ calls = <<>>
    /\ queue = <<>>
    /\ assistant = "starting"
    /\ button_pc = "idle"
    /\ last_press = [status |-> "never", flag |-> FALSE, pc |-> "never"]
    /\ started_in = "never"
    /\ alive = TRUE
    /\ status_code = None
    /\ earlier = NoCall
    /\ resolve = NoResolve

(* -------------------------- the event thread -------------------------- *)

\* for event in assistant.start(): the next event is taken off the stream
Takes(type) ==
    /\ alive
    /\ pc = "loop"
    /\ queue # <<>>
    /\ Head(queue) = type
    /\ queue' = Tail(queue)
    /\ status_code' = None
    /\ earlier' = IF \E i \in 1..Len(calls) : calls[i].op = "POST"
                  THEN calls[CHOOSE i \in 1..Len(calls) : calls[i].op = "POST"]
                  ELSE earlier
    /\ UNCHANGED <<assistant, button_vars, alive, resolve>>

\* the text the handler dispatches on: lowercased, with the appended space
CommandText(text) == lower(text) \o <<" ">>

OnStartFinished ==
    /\ Takes("ON_START_FINISHED")
    /\ event' = Event("ON_START_FINISHED", FALSE, <<>>, FALSE)
    /\ status' = "ready"
    /\ can_start_conversation' = TRUE
    /\ on_press' = TRUE
    /\ calls' = <<>>
    /\ current_state' = <<>>
    /\ pc' = "loop"

\* OnConversationTurnStarted as it would be without clearing the flag
OnConversationTurnStarted_KeepsFlag ==
    /\ Takes("ON_CONVERSATION_TURN_STARTED")
    /\ event' = Event("ON_CONVERSATION_TURN_STARTED", FALSE, <<>>, FALSE)
    /\ status' = "listening"
    /\ calls' = <<>>
    /\ current_state' = <<>>
    /\ UNCHANGED <<can_start_conversation, on_press, pc>>

OnConversationTurnStarted ==
    /\ Takes("ON_CONVERSATION_TURN_STARTED")
    /\ event' = Event("ON_CONVERSATION_TURN_STARTED", FALSE, <<>>, FALSE)
    /\ can_start_conversation' = FALSE
    /\ status' = "listening"
    /\ calls' = <<>>
    /\ current_state' = <<>>
    /\ UNCHANGED <<on_press, pc>>

\* OnEndOfUtterance as it would be if it gave the flag back
OnEndOfUtterance_Restores ==
    /\ Takes("ON_END_OF_UTTERANCE")
    /\ event' = Event("ON_END_OF_UTTERANCE", FALSE, <<>>, FALSE)
    /\ status' = "thinking"
    /\ can_start_conversation' = TRUE
    /\ calls' = <<>>
    /\ current_state' = <<>>
    /\ UNCHANGED <<on_press, pc>>

OnEndOfUtterance ==
    /\ Takes("ON_END_OF_UTTERANCE")
    /\ event' = Event("ON_END_OF_UTTERANCE", FALSE, <<>>, FALSE)
    /\ status' = "thinking"
    /\ calls' = <<>>
    /\ current_state' = <<>>
    /\ UNCHANGED <<can_start_conversation, on_press, pc>>

\* RecognizedText as it would be without self._assistant.stop_conversation()
RecognizedText_NoStop(text) ==
    IF IsCommand(lower(text))
    THEN CheckAction(CommandText(text))
    ELSE Nothing

\* The handler of recognized text, to its first blocking call or its end
RecognizedText(text) ==
    IF IsCommand(lower(text))
    THEN LET r == CheckAction(CommandText(text))
         IN  Step(<<stop_conversation>> \o r.calls, r.pc)
    ELSE Nothing

\* texts: what the library may have recognized
OnRecognizingSpeechFinished(texts) ==
    /\ Takes("ON_RECOGNIZING_SPEECH_FINISHED")
    /\ \E has_args \in BOOLEAN :
       \E text \in (IF has_args THEN texts ELSE {<<>>}) :
          LET r == IF has_args THEN RecognizedText(text) ELSE Nothing
          IN  /\ event' = Event("ON_RECOGNIZING_SPEECH_FINISHED", has_args, text, FALSE)
              /\ calls' = r.calls
              /\ pc' = r.pc
    /\ current_state' = <<>>
    /\ UNCHANGED <<can_start_conversation, status, on_press>>

OnConversationTurnFinished ==
    /\ Takes("ON_CONVERSATION_TURN_FINISHED")
    /\ event' = Event("ON_CONVERSATION_TURN_FINISHED", FALSE, <<>>, FALSE)
    /\ status' = "ready"
    /\ can_start_conversation' = TRUE
    /\ calls' = <<>>
    /\ current_state' = <<>>
    /\ UNCHANGED <<on_press, pc>>

\* ON_ASSISTANT_ERROR: sys.exit(1) when the event says it is fatal
OnAssistantError ==
    /\ Takes("ON_ASSISTANT_ERROR")
    /\ \E has_args \in BOOLEAN, is_fatal \in BOOLEAN :
          /\ (~has_args => ~is_fatal)
          /\ event' = Event("ON_ASSISTANT_ERROR", has_args, <<>>, is_fatal)
          /\ pc' = IF has_args /\ is_fatal THEN "exited" ELSE "loop"
    /\ calls' = <<>>
    /\ current_state' = <<>>
    /\ UNCHANGED <<can_start_conversation, status, on_press>>

\* requests.get returns: the rest of the handler to its next blocking call
\* bodies: what the backend may answer
GetReturns(bodies) ==
    /\ alive
    /\ pc = "get"
    /\ \E body \in bodies :
          LET r == Fetched(CommandText(event.text), split(body, ","))
          IN  /\ current_state' = split(body, ",")
              /\ calls' = calls \o r.calls
              /\ pc' = r.pc
    /\ UNCHANGED <<can_start_conversation, status, on_press, event, queue,
                   assistant, button_vars, alive, status_code, earlier, resolve>>

\* PostReturns as it would be if a refused command were sent once more
PostReturns_Retry ==
    /\ alive
    /\ pc = "post"
    /\ \E code \in StatusCodes :
          /\ status_code' = code
          /\ IF code # 200 /\ status_code = None
             THEN /\ calls' = Append(calls, calls[Len(calls)])
                  /\ pc' = "post"
             ELSE /\ calls' = Append(calls, openhab_send_report(code))
                  /\ pc' = "loop"
    /\ UNCHANGED <<can_start_conversation, status, on_press, event,
                   current_state, queue, assistant, button_vars, alive,
                   earlier, resolve>>

\* requests.post returns: openhab_send reports the status code
PostReturns ==
    /\ alive
    /\ pc = "post"
    /\ \E code \in StatusCodes :
          /\ status_code' = code
          /\ calls' = Append(calls, openhab_send_report(code))
    /\ pc' = "loop"
    /\ UNCHANGED <<can_start_conversation, status, on_press, event,
                   current_state, queue, assistant, button_vars, alive, earlier, resolve>>

\* requests.get or requests.post raises (the backend cannot be reached):
\* nothing catches it and the event thread ends
RequestRaises ==
    /\ alive
    /\ pc \in {"get", "post"}
    /\ pc' = "exited"
    /\ UNCHANGED <<can_start_conversation, status, on_press, event,
                   current_state, calls, queue, assistant, button_vars, alive,
                   status_code, earlier, resolve>>

\* The event thread was the only thread keeping the interpreter alive: once
\* it has ended the process ends.
ProcessExits ==
    /\ alive
    /\ pc = "exited"
    /\ alive' = FALSE
    /\ UNCHANGED <<worker_vars, queue, assistant, button_vars, earlier, resolve>>


(* ------------------------- the button callback ------------------------ *)

\* ButtonPressed as it would be without `if self._can_start_conversation`
ButtonPressed_NoCheck ==
    /\ alive
    /\ button_pc = "idle"
    /\ last_press' = [status |-> status, flag |-> can_start_conversation,
                      pc |-> pc]
    /\ button_pc' = IF on_press THEN "call" ELSE "idle"
    /\ UNCHANGED <<worker_vars, queue, assistant, started_in, alive, earlier, resolve>>

\* The button is pressed. With _on_button_pressed registered, the callback
\* runs in the button's own thread and reads the flag.
ButtonPressed ==
    /\ alive
    /\ button_pc = "idle"
    /\ last_press' = [status |-> status, flag |-> can_start_conversation,
                      pc |-> pc]
    /\ button_pc' = IF on_press /\ can_start_conversation THEN "call" ELSE "idle"
    /\ UNCHANGED <<worker_vars, queue, assistant, started_in, alive, earlier, resolve>>

\* The callback, having read the flag as true, calls start_conversation().
\* An idle library begins a turn; one that is in a turn stays in it.
StartConversation ==
    /\ alive
    /\ button_pc = "call"
    /\ button_pc' = "idle"
    /\ started_in' = assistant
    /\ IF assistant = "idle"
       THEN /\ Len(queue) < MaxQueue
            /\ assistant' = "listening"
            /\ queue' = Append(queue, "ON_CONVERSATION_TURN_STARTED")
       ELSE UNCHANGED <<assistant, queue>>
    /\ UNCHANGED <<worker_vars, last_press, alive, earlier, resolve>>

(* -------------------------- the speech library ------------------------ *)

\* The library emits an event and moves to its next phase.
Emits(type, to) ==
    /\ alive
    /\ Len(queue) < MaxQueue
    /\ assistant' = to
    /\ queue' = Append(queue, type)
    /\ UNCHANGED <<worker_vars, button_vars, alive, earlier, resolve>>

AssistantReady ==
    /\ assistant = "starting"
    /\ Emits("ON_START_FINISHED", "idle")

\* The hotword is heard: a turn starts without the button.
Hotword ==
    /\ assistant = "idle"
    /\ Emits("ON_CONVERSATION_TURN_STARTED", "listening")

EndOfUtterance ==
    /\ assistant = "listening"
    /\ Emits("ON_END_OF_UTTERANCE", "thinking")

SpeechRecognized ==
    /\ assistant = "thinking"
    /\ Emits("ON_RECOGNIZING_SPEECH_FINISHED", "recognized")

TurnFinished ==
    /\ assistant = "recognized"
    /\ Emits("ON_CONVERSATION_TURN_FINISHED", "idle")

AssistantError ==
    /\ assistant # "starting"
    /\ Emits("ON_ASSISTANT_ERROR", assistant)

(* --------------------------- specification ---------------------------- *)

Next ==
    \/ OnStartFinished
    \/ OnConversationTurnStarted
    \/ OnEndOfUtterance
    \/ OnRecognizingSpeechFinished(TurnUtterances)
    \/ OnConversationTurnFinished
    \/ OnAssistantError
    \/ GetReturns(TurnStateTexts)
    \/ PostReturns
    \/ RequestRaises
    \/ ProcessExits
    \/ ButtonPressed
    \/ StartConversation
    \/ AssistantReady
    \/ Hotword
    \/ EndOfUtterance
    \/ SpeechRecognized
    \/ TurnFinished
    \/ AssistantError

Spec == Init /\ [][Next]_vars


\* The handler of recognized text alone, over every utterance and every
\* backend answer: the event thread is about to take the recognized-text
\* event of a turn (the turn has started, so the flag is false).
InitDispatch ==
    /\ can_start_conversation = FALSE
    /\ status = "thinking"
    /\ on_press = TRUE
    /\ pc = "loop"
    /\ event = Event("ON_END_OF_UTTERANCE", FALSE, <<>>, FALSE)
    /\ current_state = <<>>
    /\ calls = <<>>
    /\ queue = <<"ON_RECOGNIZING_SPEECH_FINISHED">>
    /\ assistant = "recognized"
    /\ button_pc = "idle"
    /\ last_press = [status |-> "never", flag |-> FALSE, pc |-> "never"]
    /\ started_in = "never"
    /\ alive = TRUE
    /\ status_code = None
    /\ earlier = NoCall
    /\ resolve = NoResolve

NextDispatch ==
    \/ OnRecognizingSpeechFinished(Utterances)
    \/ GetReturns(StateTexts)
    \/ PostReturns
    \/ RequestRaises
    \/ ProcessExits

SpecDispatch == InitDispatch /\ [][NextDispatch]_vars


(* ------------------------ device-name resolution ---------------------- *)

\* Device tables other than the one the program is shipped with: up to
\* MaxDevices names, one of them ('off') contained in another ('office')
\* and one ('lamp') that no text contains,
\* with a color item and a color-temperature item for each place
MaxDevices == 3

DeviceNames == {Word.office, Spoken.kitchen, Word.off, <<"l","a","m","p">>}

DeviceTables ==
    UNION {{ids \in [1..n -> DeviceNames] :
               \A i, j \in 1..n : ids[i] = ids[j] => i = j} : n \in 1..MaxDevices}

ColorItems == <<"color_0", "color_1", "color_2", "color_3">>

ColorTempItems == <<"color_temperature_0", "color_temperature_1",
                    "color_temperature_2", "color_temperature_3">>

ResolveTexts ==
    {CommandText(Join(ws)) : ws \in
        {<<Word.home, Word.turn, Spoken.the, Word.light, Word.red>>,
         <<Word.home, Word.turn, Spoken.the, Word.office, Word.light, Word.red>>,
         <<Word.home, Word.turn, Spoken.the, Spoken.kitchen, Word.light, Word.red>>,
         <<Word.home, Word.turn, Word.off, Spoken.the, Word.light>>,
         <<Word.home, Word.turn, Word.off, Spoken.the, Spoken.kitchen, Word.light>>,
         <<Word.home, Word.turn, Spoken.the, Spoken.kitchen, Word.office,
           Word.light, Word.red>>,
         <<Word.home, Word.turn, Spoken.the, Word.office, Spoken.kitchen,
           Word.light, Word.off>>,
         <<Word.home, Word.turn, Word.on, Spoken.the, Spoken.Office, Word.light>>}}

\* the generator (token in text for token in lights_ids) for a given table
Detected(ids, text) == [i \in 1..Len(ids) |-> contains(ids[i], text)]

\* ResolveDevice as it would be with `if idx:` for `if (idx != None):`
ResolveDevice_Truthy ==
    /\ resolve.at = "text"
    /\ LET idx == any_idx(Detected(resolve.lights_ids, resolve.text))
           found == idx # None /\ idx # 0
       IN  resolve' =
             [resolve EXCEPT
                !.at = "done",
                !.idx = idx,
                !.found = found,
                !.direct_to_color =
                    IF found THEN resolve.light_colors[idx + 1] ELSE "",
                !.direct_to_color_temp =
                    IF found THEN resolve.light_color_temps[idx + 1] ELSE ""]
    /\ UNCHANGED <<worker_vars, queue, assistant, button_vars, alive, earlier>>

\* idx = any_idx(token in text for token in lights_ids); if (idx != None):
\* direct_to_color = light_colors[idx], direct_to_color_temp =
\* light_color_temps[idx]
ResolveDevice ==
    /\ resolve.at = "text"
    /\ LET idx == any_idx(Detected(resolve.lights_ids, resolve.text))
           found == idx # None
       IN  resolve' =
             [resolve EXCEPT
                !.at = "done",
                !.idx = idx,
                !.found = found,
                !.direct_to_color =
                    IF found THEN resolve.light_colors[idx + 1] ELSE "",
                !.direct_to_color_temp =
                    IF found THEN resolve.light_color_temps[idx + 1] ELSE ""]
    /\ UNCHANGED <<worker_vars, queue, assistant, button_vars, alive, earlier>>

\* The handler is about to look the device names up in a text, for every
\* device table and text.
InitResolve ==
    /\ can_start_conversation = FALSE
    /\ status = "thinking"
    /\ on_press = TRUE
    /\ pc = "loop"
    /\ event = NoEvent
    /\ current_state = <<>>
    /\ calls = <<>>
    /\ queue = <<>>
    /\ assistant = "recognized"
    /\ button_pc = "idle"
    /\ last_press = [status |-> "never", flag |-> FALSE, pc |-> "never"]
    /\ started_in = "never"
    /\ alive = TRUE
    /\ status_code = None
    /\ earlier = NoCall
    /\ \E ids \in DeviceTables, text \in ResolveTexts :
          resolve = [at |-> "text",
                     lights_ids |-> ids,
                     light_colors |-> SubSeq(ColorItems, 1, Len(ids)),
                     light_color_temps |-> SubSeq(ColorTempItems, 1, Len(ids)),
                     text |-> text,
                     idx |-> None,
                     found |-> FALSE,
                     direct_to_color |-> "",
                     direct_to_color_temp |-> ""]

NextResolve ==
    \/ ResolveDevice

SpecResolve == InitResolve /\ [][NextResolve]_vars


(* ------------------------------ properties ---------------------------- *)

\* The event thread has taken a recognized-text event that carries a text.
HeardText ==
    /\ event.type = "ON_RECOGNIZING_SPEECH_FINISHED"
    /\ event.has_args

\* The lowercased recognized text, and the text the grammar is applied to
Heard == lower(event.text)

HeardPadded == Heard \o <<" ">>

\* The handler of the event taken last has run to its end.
HandlerDone == pc = "loop"

Made(op) == {i \in 1..Len(calls) : calls[i].op = op}

Said(message) == \E i \in 1..Len(calls) : calls[i] = say(message)

NoNetwork == Made("GET") = {} /\ Made("POST") = {}

\* The first whitespace-delimited token of a text
FirstToken(text) == split(text, " ")[1]

\* C1: when the event thread takes a recognized-text event whose lowercased
\* text does not start with the hotword, the handler makes no call at all
\* (no stop_conversation, GET, POST, announcement or power action), returns
\* to the loop and leaves _can_start_conversation as it was.
C1_NoHotwordNoDispatch ==
    [][ ( /\ queue # <<>>
          /\ Head(queue) = "ON_RECOGNIZING_SPEECH_FINISHED"
          /\ queue' = Tail(queue)
          /\ ~startswith(lower(event'.text), custom_hotword) )
        => ( /\ calls' = <<>>
             /\ pc' = "loop"
             /\ can_start_conversation' = can_start_conversation
             /\ status' = status ) ]_vars

\* C1: a text with the hotword inside it but not at its start, and command
\* words after it, was taken and nothing was called.
C1_Witness ==
    /\ HeardText
    /\ ~startswith(Heard, custom_hotword)
    /\ contains(custom_hotword, Heard)
    /\ tok(Word.turn, HeardPadded)
    /\ HandlerDone
    /\ calls = <<>>

\* C2: a recognized text whose first whitespace-delimited token is not
\* exactly the hotword is never dispatched: its handler makes no call.
C2_FirstTokenOnly ==
    (HeardText /\ FirstToken(Heard) # custom_hotword)
        => (calls = <<>> /\ HandlerDone)


\* The library is in a conversation turn: it has started one (on the hotword
\* or on start_conversation) and has not yet finished it.
InTurn(phase) == phase \in {"listening", "thinking", "recognized"}

\* C3: start_conversation is never invoked while a turn that has started has
\* not yet finished: every call finds the library idle.
C3_OneTurnAtATime == ~InTurn(started_in)

\* C4: a button press while the session is not ready, or between the
\* handling of TurnStarted and that of TurnFinished, does nothing: the
\* callback does not go on to start_conversation, none is invoked, and the
\* press changes neither the session state nor the flag.
C4_PressIgnored ==
    [][ (status \in {"unset", "listening", "thinking"} /\ button_pc = "idle")
        => ( /\ button_pc' = "idle"
             /\ started_in' = started_in
             /\ (last_press' # last_press =>
                    /\ status' = status
                    /\ can_start_conversation' = can_start_conversation) ) ]_vars

\* C4: the button was pressed while the session was listening, and no
\* conversation has ever been started from the button.
C4_Witness ==
    /\ last_press.status = "listening"
    /\ ~last_press.flag
    /\ status = "listening"
    /\ on_press
    /\ button_pc = "idle"
    /\ started_in = "never"

\* C5: the flag is true exactly when the session is ReadyIdle: false before
\* Ready is handled and from the handling of TurnStarted to that of
\* TurnFinished, true at every other point.
C5_FlagIffReady == can_start_conversation <=> (status = "ready")

\* C5: a second turn has been started and handled after a first one was
\* finished, and the flag is false again.
C5_Witness ==
    /\ status = "listening"
    /\ ~can_start_conversation
    /\ started_in = "idle"
    /\ last_press.status = "ready"
    /\ last_press.flag

\* The event thread has handled a fatal assistant error.
FatalHandled == event.type = "ON_ASSISTANT_ERROR" /\ event.is_fatal

\* C6: once a fatal error has been handled nothing is accepted any more: no
\* event is taken, no call is made, and no button press leads the callback
\* to start_conversation.
C6_FatalIsTerminal ==
    [][ FatalHandled
        => ( /\ event' = event
             /\ (queue' = queue \/ Len(queue') > Len(queue))
             /\ calls' = calls
             /\ (button_pc = "idle" => button_pc' = "idle") ) ]_vars


\* In what follows h is the lowercased recognized text and t is h with the
\* appended space, the text the grammar is applied to.

\* The verb group the first-match order selects
FirstDirect(t) == DirectGroup(t)

FirstIncrease(t) == ~DirectGroup(t) /\ IncreaseGroup(t)

FirstDecrease(t) == ~DirectGroup(t) /\ ~IncreaseGroup(t) /\ DecreaseGroup(t)

\* A configured device name occurs in the text.
NamesDevice(t) == \E i \in 1..Len(lights_ids) : contains(lights_ids[i], t)

\* The text asks for one light as the claim describes it: the direct-state
\* group with ' light ', or the increase or decrease group with
\* ' brightness ' and a light keyword.
AsksOneLight(t) ==
    \/ FirstDirect(t) /\ tok(Word.light, t)
    \/ /\ FirstIncrease(t) \/ FirstDecrease(t)
       /\ tok(Word.brightness, t)
       /\ contains(Word.light, t)

DeviceNotFound ==
    /\ HandlerDone
    /\ calls = <<stop_conversation, say("Sorry, I don't know that device")>>

\* C7 as claimed: a command that asks for one light and names no configured
\* device ends in DeviceNotFound with neither a GET nor a POST.
C7_UnknownDeviceNoNetwork ==
    LET h == Heard
        t == h \o <<" ">>
    IN  ( /\ HeardText
          /\ startswith(h, custom_hotword)
          /\ AsksOneLight(t)
          /\ ~NamesDevice(t) )
        => DeviceNotFound

\* C7 as amended: the same for a command that, in the direct-state group,
\* does not also contain both ' all ' and ' lights ' (which is answered as
\* an all-lights command before ' light ' is looked at).
C7_UnknownDeviceNoNetworkUnlessAll ==
    LET h == Heard
        t == h \o <<" ">>
    IN  ( /\ HeardText
          /\ startswith(h, custom_hotword)
          /\ AsksOneLight(t)
          /\ ~(FirstDirect(t) /\ AllLights(t))
          /\ ~NamesDevice(t) )
        => DeviceNotFound

\* C7: 'kitchen' is asked to be dimmed, and the answer was DeviceNotFound.
C7_Witness ==
    LET h == Heard
        t == h \o <<" ">>
    IN  /\ HeardText
        /\ startswith(h, custom_hotword)
        /\ FirstDecrease(t)
        /\ AsksOneLight(t)
        /\ contains(Spoken.kitchen, h)
        /\ ~NamesDevice(t)
        /\ DeviceNotFound

\* C8: a command answered with 'Sorry, I cannot do that yet' has made no
\* network call, neither a GET nor a POST.
C8_NotRecognizedNoNetwork ==
    ( /\ HeardText
      /\ startswith(Heard, custom_hotword)
      /\ Said("Sorry, I cannot do that yet") )
    => NoNetwork

Min(a, b) == IF a < b THEN a ELSE b

Max(a, b) == IF a > b THEN a ELSE b

\* requests.get has returned a color state: three fields, the third the
\* decimal spelling of an integer from 0 to 100.
FetchedColorState ==
    /\ Len(current_state) = 3
    /\ IsIntLiteral(current_state[3])
    /\ int(current_state[3]) \in 0..100
    /\ str(int(current_state[3])) = current_state[3]

\* The handler has issued exactly stop_conversation, one GET of the color
\* item and one POST of `fields` joined by commas to the same item, followed
\* at most by the announcement of the POST's outcome.
PushedAfterFetch(item, fields) ==
    /\ Len(calls) \in {3, 4}
    /\ calls[1] = stop_conversation
    /\ calls[2] = requests_get(item)
    /\ calls[3].op = "POST"
    /\ calls[3].arg = item
    /\ split(calls[3].data, ",") = fields
    /\ Len(calls) = 4 => calls[4].op = "say"

\* A command of the increase or decrease group that names the configured
\* light and its brightness
HeardAdjust(h, t) ==
    /\ HeardText
    /\ startswith(h, custom_hotword)
    /\ FirstIncrease(t) \/ FirstDecrease(t)
    /\ tok(Word.brightness, t)
    /\ contains(Word.light, t)
    /\ NamesDevice(t)

\* The brightness the claim asks for: 25 more, at most 100, for an increase;
\* 25 less, at least 0, for a decrease
ClaimedBrightness(t, b) ==
    IF FirstIncrease(t) THEN Min(100, b + 25) ELSE Max(0, b - 25)

\* C9: for every fetched color state (h, s, b) with b an integer from 0 to
\* 100, an increase command pushes h, s and min(100, b + 25), a decrease
\* command h, s and max(0, b - 25), to the color item of the device; the
\* pushed brightness lies in 0..100, and when it equals b the pushed fields
\* are the fetched ones.
C9_AdjustBrightness ==
    LET h == Heard
        t == h \o <<" ">>
    IN  (FetchedColorState /\ HeardAdjust(h, t)) =>
            LET b == int(current_state[3])
                new == ClaimedBrightness(t, b)
                pushed == split(calls[3].data, ",")
            IN  /\ PushedAfterFetch(light_colors[1],
                        <<current_state[1], current_state[2], str(new)>>)
                /\ int(pushed[3]) \in 0..100
                /\ (new = b => pushed = current_state)

\* C9: brightness 90 was fetched for an increase and 100 was pushed.
C9_Witness ==
    LET h == Heard
        t == h \o <<" ">>
    IN  /\ current_state = <<str(120), str(50), str(90)>>
        /\ HeardAdjust(h, t)
        /\ FirstIncrease(t)
        /\ Len(calls) >= 3
        /\ calls[3] = requests_post(light_colors[1], Wire(120, 50, 100))

\* The named colors in the order the handler tests them, with their hues
ColorWords == <<Word.red, Word.yellow, Word.blue, Word.pink, Word.green>>

ColorHues == <<0, 100, 260, 340, 140>>

\* The first color, in the handler's order, that the text contains
FirstColor(t) ==
    LET present == {i \in 1..Len(ColorWords) : tok(ColorWords[i], t)}
    IN  CHOOSE i \in present : \A j \in present : i <= j

\* A direct-state command for the configured light that names a color and
\* contains neither ' on ' nor ' off '
HeardSetColor(h, t) ==
    /\ HeardText
    /\ startswith(h, custom_hotword)
    /\ FirstDirect(t)
    /\ ~AllLights(t)
    /\ tok(Word.light, t)
    /\ NamesDevice(t)
    /\ ~tok(Word.on, t)
    /\ ~tok(Word.off, t)
    /\ \E i \in 1..Len(ColorWords) : tok(ColorWords[i], t)

\* C10: a color command pushes the hue of the named color (0, 100, 260, 340
\* or 140), saturation 100 and, unaltered, the brightness field of the state
\* fetched for the same device in the same dispatch, to its color item.
C10_SetColorKeepsBrightness ==
    LET h == Heard
        t == h \o <<" ">>
    IN  (Len(current_state) = 3 /\ HeardSetColor(h, t)) =>
            PushedAfterFetch(light_colors[1],
                <<str(ColorHues[FirstColor(t)]), str(100), current_state[3]>>)

\* C10: the light was asked to be pink while its state was 120,50,37, and
\* 340,100,37 was pushed.
C10_Witness ==
    LET h == Heard
        t == h \o <<" ">>
    IN  /\ current_state = <<str(120), str(50), str(37)>>
        /\ HeardSetColor(h, t)
        /\ tok(Word.pink, t)
        /\ Len(calls) >= 3
        /\ calls[3] = requests_post(light_colors[1], Wire(340, 100, 37))

\* The value words of the direct-state branch for one light, in the order
\* the handler tests them
ValueOrder == <<Word.on, Word.off, Word.red, Word.yellow, Word.blue, Word.pink,
                Word.green, Word.cool, Word.warm, Word.natural>>

\* The text resolves to a device action: all lights on or off, a value for
\* the configured light, or more or less brightness for it.
DeviceAction(t) ==
    \/ /\ FirstDirect(t)
       /\ AllLights(t)
       /\ tok(Word.on, t) \/ tok(Word.off, t)
    \/ /\ FirstDirect(t)
       /\ ~AllLights(t)
       /\ tok(Word.light, t)
       /\ NamesDevice(t)
       /\ \E i \in 1..Len(ValueOrder) : tok(ValueOrder[i], t)
    \/ /\ FirstIncrease(t) \/ FirstDecrease(t)
       /\ tok(Word.brightness, t)
       /\ contains(Word.light, t)
       /\ NamesDevice(t)

\* The handler has come to the action it resolved: it is in requests.post or
\* past it, or it has returned.
ActionReached == pc \in {"post", "loop"} \/ Made("POST") # {}

\* C11: no handler ever makes more than one POST; the handler of a command
\* that resolves to a device action has made exactly one once it has come to
\* that action, whatever status code is answered and whatever was pushed
\* before it; and once a status code has been answered the handler has
\* returned, with that one POST and nothing sent again.
C11_OnePushPerCommand ==
    LET h == Heard
        t == h \o <<" ">>
        pushes == Cardinality(Made("POST"))
    IN  /\ pushes <= 1
        /\ (HeardText /\ startswith(h, custom_hotword) /\ DeviceAction(t)
                /\ ActionReached) => pushes = 1
        /\ status_code # None => (HandlerDone /\ pushes = 1)

\* C11: the same value was pushed to the same item by the command before,
\* it has been pushed once again, and this time 404 was answered.
C11_Witness ==
    /\ earlier.op = "POST"
    /\ Made("POST") # {}
    /\ \A i \in Made("POST") : calls[i] = earlier
    /\ status_code = 404
    /\ HandlerDone

\* The announcement the claim gives each status code
Announcement(code) ==
    CASE code = 200 -> "OK"
      [] code = 400 -> "There has been an error: bad command"
      [] code = 404 -> "There has been an error: unknown item"
      [] OTHER -> "Command failed"

Announcements == {"OK", "There has been an error: bad command",
                  "There has been an error: unknown item", "Command failed"}

\* C12: once requests.post has returned, what is spoken is given by the
\* status code alone (200 success, 400 bad command, 404 unknown item, any
\* other code generic failure), whatever was pushed and to which item; the
\* four announcements differ from one another, and exactly one of them, and
\* nothing else, is spoken for the push; before the answer none is spoken.
C12_OutcomeByStatusCode ==
    LET said == Made("say")
    IN  /\ Cardinality(Announcements) = 4
        /\ status_code # None =>
               /\ Cardinality(Made("POST")) = 1
               /\ Cardinality(said) = 1
               /\ calls[Len(calls)] = say(Announcement(status_code))
               /\ calls[Len(calls) - 1].op = "POST"
               /\ \A a \in Announcements :
                      Said(a) <=> (a = Announcement(status_code))
        /\ (Made("POST") # {} /\ HandlerDone) => status_code # None
        /\ pc = "post" => said = {}

\* C12: a push was answered 404 and the unknown-item announcement spoken.
C12_Witness ==
    /\ status_code = 404
    /\ Made("POST") # {}
    /\ Said("There has been an error: unknown item")
    /\ HandlerDone

\* C13: whatever a dispatched utterance leads to, the event thread goes on:
\* the handler of a recognized command never ends the thread or the process.
C13_DispatchNeverEndsWorker ==
    (HeardText /\ startswith(Heard, custom_hotword))
        => (pc # "exited" /\ alive)

\* The verb group the claimed order selects: the first of direct-state,
\* increase, decrease, reboot that has a padded keyword in the text
VerbGroup(t) ==
    IF \E w \in {Word.turn, Word.power, Word.set, Word.change} : tok(w, t)
    THEN "direct"
    ELSE IF \E w \in {Word.increase, Word.raise} : tok(w, t) THEN "increase"
    ELSE IF \E w \in {Word.decrease, Word.reduce} : tok(w, t) THEN "decrease"
    ELSE IF \E w \in {Word.reboot, Word.restart} : tok(w, t) THEN "reboot"
    ELSE "none"

\* The fields of each state pushed so far
PushedFields == {split(calls[i].data, ",") : i \in Made("POST")}

ActionNotRecognized ==
    /\ HandlerDone
    /\ calls = <<stop_conversation, say("Sorry, I cannot do that yet")>>

\* C14: a command is handled by the first verb group, in the order
\* direct-state, increase, decrease, reboot, that has a keyword in it, and by
\* no other. Handled as direct-state it never changes a brightness (a pushed
\* color state carries the fetched brightness), never reboots, and with
\* ' all ', ' lights ' and ' on ' it switches all lights on whatever other
\* verbs it contains; handled as increase it pushes 25 more (at most 100) and
\* as decrease 25 less (at least 0) and runs no power action; only the
\* direct-state group shuts down and only the reboot group reboots, which
\* makes no network call; a command with no verb of any group is answered
\* ActionNotRecognized.
C14_FirstVerbGroupWins ==
    LET h == Heard
        t == h \o <<" ">>
        g == VerbGroup(t)
        pushed == PushedFields
    IN  (HeardText /\ startswith(h, custom_hotword)) =>
          /\ g = "none" => ActionNotRecognized
          /\ g = "direct" =>
                /\ \A f \in pushed : Len(f) = 3 => f[3] = current_state[3]
                /\ ~\E i \in 1..Len(calls) : calls[i] = subprocess_call("sudo reboot")
                /\ (AllLights(t) /\ tok(Word.on, t)) =>
                       (Len(calls) >= 2
                        /\ calls[2] = requests_post(all_lights_group, ON))
          /\ g \in {"increase", "decrease"} =>
                /\ Made("subprocess") = {}
                /\ FetchedColorState =>
                      \A f \in pushed :
                          f = <<current_state[1], current_state[2],
                                str(IF g = "increase"
                                    THEN Min(100, int(current_state[3]) + 25)
                                    ELSE Max(0, int(current_state[3]) - 25))>>
          /\ g = "reboot" =>
                /\ NoNetwork
                /\ ~\E i \in 1..Len(calls) :
                       calls[i] = subprocess_call("sudo shutdown now")
          /\ g # "direct" =>
                ~\E i \in 1..Len(calls) :
                    calls[i] = subprocess_call("sudo shutdown now")
          /\ g # "reboot" =>
                ~\E i \in 1..Len(calls) : calls[i] = subprocess_call("sudo reboot")

\* C14: a command with both ' set ' and ' increase ' named a color for the
\* configured light, whose brightness was 37: the color was pushed with
\* brightness 37.
C14_Witness ==
    LET h == Heard
        t == h \o <<" ">>
    IN  /\ HeardText
        /\ startswith(h, custom_hotword)
        /\ tok(Word.set, t)
        /\ tok(Word.increase, t)
        /\ tok(Word.brightness, t)
        /\ current_state = <<str(120), str(50), str(37)>>
        /\ PushedFields = {<<str(0), str(100), str(37)>>}

\* A direct-state command for the configured light alone
HeardDirectLight(h, t) ==
    /\ HeardText
    /\ startswith(h, custom_hotword)
    /\ FirstDirect(t)
    /\ ~AllLights(t)
    /\ tok(Word.light, t)
    /\ NamesDevice(t)

\* The place in the claimed priority list of the earliest word of that list
\* the text contains; 0 when it contains none
RECURSIVE FirstValueFrom(_, _)
FirstValueFrom(i, t) ==
    IF i > Len(ValueOrder) THEN 0
    ELSE IF tok(ValueOrder[i], t) THEN i
    ELSE FirstValueFrom(i + 1, t)

FirstValue(t) == FirstValueFrom(1, t)

\* The levels of cool, warm and natural
TempLevels == <<0, 100, 50>>

\* The push the claim gives the word at place i of the priority list, b
\* being the fetched brightness field
ClaimedPush(i, b) ==
    IF i = 1 THEN requests_post(light_colors[1], ON)
    ELSE IF i = 2 THEN requests_post(light_colors[1], OFF)
    ELSE IF i <= 7 THEN
        requests_post(light_colors[1],
            str(ColorHues[i - 2]) \o <<",">> \o str(100) \o <<",">> \o b)
    ELSE requests_post(light_color_temps[1], str(TempLevels[i - 7]))

\* C15: a direct-state command for the configured light executes exactly
\* one action, that of the earliest of on, off, red, yellow, blue, pink, green,
\* cool, warm, natural it contains: once the handler has come to its action
\* it has made that one push and no other, run no power action, and speaks
\* nothing but the outcome of that push. With none of the ten words it makes
\* no push and, when it returns, has answered ActionNotRecognized.
C15_ValuePriority ==
    LET h == Heard
        t == h \o <<" ">>
    IN  HeardDirectLight(h, t) =>
          LET i == FirstValue(t)
          IN  /\ Made("subprocess") = {}
              /\ i = 0 =>
                    /\ Made("POST") = {}
                    /\ HandlerDone =>
                          /\ calls[Len(calls)] = say("Sorry, I cannot do that yet")
                          /\ Cardinality(Made("say")) = 1
              /\ (i # 0 /\ ActionReached) =>
                    /\ Cardinality(Made("POST")) = 1
                    /\ calls[3] = ClaimedPush(i, IF Len(current_state) = 3
                                                THEN current_state[3] ELSE <<>>)
                    /\ Len(calls) <= 4
                    /\ Len(calls) = 4 =>
                          calls[4] = say(Announcement(status_code))

\* C15: a command with ' on ' and ' red ' has pushed ON, and nothing else.
C15_Witness ==
    LET h == Heard
        t == h \o <<" ">>
    IN  /\ HeardDirectLight(h, t)
        /\ tok(Word.on, t)
        /\ tok(Word.red, t)
        /\ HandlerDone
        /\ calls = <<stop_conversation, requests_get(light_colors[1]),
                     requests_post(light_colors[1], ON), say("OK")>>

\* The power actions
Shutdown == \E i \in 1..Len(calls) : calls[i] = subprocess_call("sudo shutdown now")

Restart == \E i \in 1..Len(calls) : calls[i] = subprocess_call("sudo reboot")

\* A direct-state command that is neither for all lights nor for one light
\* and contains ' system '
DirectSystem(t) ==
    /\ VerbGroup(t) = "direct"
    /\ ~(tok(Word.all, t) /\ tok(Word.lights, t))
    /\ ~tok(Word.light, t)
    /\ tok(Word.system, t)

\* C16: the handler of a command shuts the system down exactly when the
\* command is in the direct-state group, neither for all lights nor for one
\* light, and contains ' system ' and ' off '; it reboots exactly when the
\* command is in the reboot group and contains ' system '. A system command
\* of the direct-state group without ' off ' and one of the reboot group
\* without ' system ' return having spoken nothing and run no power action.
\* In all four cases there is no GET and no POST: a power action is
\* announced, run, and the handler returns.
C16_SystemScope ==
    LET h == Heard
        t == h \o <<" ">>
    IN  (HeardText /\ startswith(h, custom_hotword)) =>
          LET system == DirectSystem(t)
              off == tok(Word.off, t)
              reboot == VerbGroup(t) = "reboot"
              named == tok(Word.system, t)
          IN  /\ Shutdown <=> (system /\ off)
              /\ Restart <=> (reboot /\ named)
              /\ (system /\ off) =>
                     /\ HandlerDone
                     /\ calls = <<stop_conversation,
                                  say("Powering off the system. Good bye!"),
                                  subprocess_call("sudo shutdown now")>>
              /\ (reboot /\ named) =>
                     /\ HandlerDone
                     /\ calls = <<stop_conversation,
                                  say("Rebooting the system. Hold on!"),
                                  subprocess_call("sudo reboot")>>
              /\ ((system /\ ~off) \/ (reboot /\ ~named)) =>
                     /\ HandlerDone
                     /\ calls = <<stop_conversation>>
              /\ (system \/ reboot) => NoNetwork

\* C16: the system was asked to be turned off and was shut down.
C16_Witness ==
    LET h == Heard
        t == h \o <<" ">>
    IN  /\ HeardText
        /\ startswith(h, custom_hotword)
        /\ DirectSystem(t)
        /\ tok(Word.off, t)
        /\ Shutdown
        /\ NoNetwork

\* The places of the table whose name occurs in the text
Occurring == {i \in 1..Len(resolve.lights_ids) :
                 contains(resolve.lights_ids[i], resolve.text)}

\* C17: for every device table and text, the device resolved is the one at
\* the smallest place of the table whose name occurs in the text, wherever
\* and among however many other names it occurs; the device at index 0 is
\* found like any other; no device is found exactly when no name occurs;
\* and the color and color-temperature items are those at the same place.
C17_FirstConfiguredName ==
    resolve.at = "done" =>
        LET first == CHOOSE i \in Occurring : \A j \in Occurring : i <= j
        IN  /\ resolve.found <=> (Occurring # {})
            /\ resolve.found <=> (resolve.idx # None)
            /\ Occurring # {} =>
                  /\ resolve.idx = first - 1
                  /\ resolve.direct_to_color = resolve.light_colors[first]
                  /\ resolve.direct_to_color_temp = resolve.light_color_temps[first]

\* C17: of three devices the first of the table was resolved (index 0),
\* though another device of the table is named before it in the text.
C17_Witness ==
    /\ resolve.at = "done"
    /\ resolve.lights_ids = <<Word.office, Word.off, Spoken.kitchen>>
    /\ contains(Spoken.kitchen \o <<" ">> \o Word.office, resolve.text)
    /\ resolve.found
    /\ resolve.idx = 0
    /\ resolve.direct_to_color = "color_0"
    /\ resolve.direct_to_color_temp = "color_temperature_0"

\* C18: every call a handler makes (GET, POST, announcement, power action,
\* stop_conversation) is made by the handler of a recognized text, and from
\* the moment that handler starts until the next event is taken, blocking
\* calls in flight included, the session is in the state the handling of
\* EndOfUtterance left it in, after TurnStarted and before TurnFinished, with
\* the flag false; a button press in that time does not lead the callback
\* to start_conversation.
C18_DispatchInsideTurn ==
    [][ /\ calls' # <<>> => event'.type = "ON_RECOGNIZING_SPEECH_FINISHED"
        /\ pc' \in {"get", "post"} => event'.type = "ON_RECOGNIZING_SPEECH_FINISHED"
        /\ event'.type = "ON_RECOGNIZING_SPEECH_FINISHED" =>
               /\ ~can_start_conversation'
               /\ status' = "thinking"
        /\ (event.type = "ON_RECOGNIZING_SPEECH_FINISHED" /\ button_pc = "idle")
               => button_pc' = "idle" ]_vars

\* C18: the button was pressed while the handler was blocked in
\* requests.get; the callback went no further, and the handler has gone on
\* to its POST.
C18_Witness ==
    /\ last_press.pc = "get"
    /\ last_press.status = "thinking"
    /\ ~last_press.flag
    /\ button_pc = "idle"
    /\ event.type = "ON_RECOGNIZING_SPEECH_FINISHED"
    /\ pc = "post"
    /\ ~can_start_conversation

\* C19: a direct-state command for the configured light whose first value
\* word is cool, warm or natural makes no GET at all, and once it has come
\* to its action it has made exactly one POST, of 0, 100 or 50, to the
\* color-temperature item of the device.
C19_ColorTempNoFetch ==
    LET h == Heard
        t == h \o <<" ">>
    IN  (HeardDirectLight(h, t) /\ FirstValue(t) \in 8..10) =>
          /\ Made("GET") = {}
          /\ ActionReached =>
                {calls[i] : i \in Made("POST")} =
                    {requests_post(light_color_temps[1],
                                   str(TempLevels[FirstValue(t) - 7]))}

\* What the program can speak on a command
Spoken_Messages ==
    Announcements \cup
    {"Sorry, I cannot do that yet", "Sorry, I don't know that device",
     "Powering off the system. Good bye!", "Rebooting the system. Hold on!"}

\* The handler of a command has called stop_conversation once, before
\* anything else, has spoken at most once, one of the program's
\* announcements, and when it has returned it has spoken exactly once unless
\* the command is `silent`, in which case it has not spoken.
OneAnnouncement(silent) ==
    /\ Len(calls) >= 1
    /\ calls[1] = stop_conversation
    /\ Made("stop_conversation") = {1}
    /\ Cardinality(Made("say")) <= 1
    /\ \A i \in Made("say") : calls[i].arg \in Spoken_Messages
    /\ HandlerDone => (Cardinality(Made("say")) = IF silent THEN 0 ELSE 1)

\* C20 as claimed: every command whose handler returns has been answered
\* with exactly one announcement, except that a command of the direct-state
\* group with ' system ' and no ' off ', and one of the reboot group without
\* ' system ', are answered with none; stop_conversation is called exactly
\* once, before any GET, POST or announcement.
C20_OneAnnouncement ==
    LET h == Heard
        t == h \o <<" ">>
    IN  (HeardText /\ startswith(h, custom_hotword)) =>
          OneAnnouncement(
              \/ VerbGroup(t) = "direct" /\ tok(Word.system, t) /\ ~tok(Word.off, t)
              \/ VerbGroup(t) = "reboot" /\ ~tok(Word.system, t))

\* C20 as amended: the same, the silent direct-state commands being those
\* with ' system ' and no ' off ' that are neither for all lights (' all '
\* and ' lights ') nor for one light (' light '), which are answered first.
C20_OneAnnouncementSystemScope ==
    LET h == Heard
        t == h \o <<" ">>
    IN  (HeardText /\ startswith(h, custom_hotword)) =>
          OneAnnouncement(
              \/ DirectSystem(t) /\ ~tok(Word.off, t)
              \/ VerbGroup(t) = "reboot" /\ ~tok(Word.system, t))

\* C20: a command for the system without ' off ' has returned after
\* stop_conversation alone, nothing spoken.
C20_Witness ==
    LET h == Heard
        t == h \o <<" ">>
    IN  /\ HeardText
        /\ startswith(h, custom_hotword)
        /\ DirectSystem(t)
        /\ ~tok(Word.off, t)
        /\ HandlerDone
        /\ calls = <<stop_conversation>>

====
